---- MODULE Spec2Model ----
(***************************************************************************)
(* Finger-Counting Calculator: the expression parser, the validator and    *)
(* the animation sequencer of src/src/FingerCountingCalculator.tsx.        *)
(*                                                                         *)
(* One action is one JavaScript task: an event handler together with the   *)
(* effects React runs for it, or the resumption of a suspended             *)
(* runAnimation coroutine from one `await sleep` up to the next one.       *)
(* Texts are sequences of one-character strings, so that the parser can    *)
(* be computed character by character.  The lengths of the sleeps are not  *)
(* modelled: a pending timer may fire at any moment, before or after any   *)
(* user event.                                                             *)
(***************************************************************************)
EXTENDS Integers, Sequences, FiniteSets, TLC

VARIABLES
    expr,          \* useState("3 + 3"): the input text
    error,         \* useState<string | null>
    labels,        \* useState<string[]>: the finger labels
    highlightIdx,  \* useState<number | null>
    isRunning,     \* useState(false)
    resultOpen,    \* useState(false)
    lastRunId,     \* useRef(0): lastRunId.current
    mode,          \* useState<Mode>("svg2")
    runs,          \* the suspended runAnimation coroutines, oldest first
    ev,            \* history: the task that produced the current state
    attempt,       \* history: the last start refused while a run was in flight
    issued,        \* history: the run ids allocated so far, in order
    steps,         \* history: the steps the run in flight has executed
    pin,           \* parser harness: the text typed so far
    pout,          \* parser harness: parseExpr(pin)
    pmsg,          \* parser harness: validate(parseExpr(pin))
    vin,           \* validator harness: the pair handed to validate
    vout           \* validator harness: what validate returned for vin

vars == <<expr, error, labels, highlightIdx, isRunning, resultOpen, lastRunId,
          mode, runs, ev, attempt, issued, steps, pin, pout, pmsg, vin, vout>>

uiVars == <<expr, error, labels, highlightIdx, isRunning, resultOpen, lastRunId,
            mode, runs, ev, attempt, issued, steps>>
parseVars == <<pin, pout, pmsg>>
valVars == <<vin, vout>>

(***************************************************************************)
(* Bounds of the model.                                                    *)
(***************************************************************************)
MaxRuns == 2      \* accepted starts per behaviour
MaxLen == 5       \* length of the texts typed into the parser harness
ValLo == 2        \* the validator harness draws numerators from -ValLo..ValHi
ValHi == 15

(***************************************************************************)
(* Values.  `number | null` is a rational num/den, NaN (den = 0) or null.  *)
(***************************************************************************)
Null == [isNull |-> TRUE, num |-> 0, den |-> 1]
NaN == [isNull |-> FALSE, num |-> 0, den |-> 0]
Frac(n, d) == [isNull |-> FALSE, num |-> n, den |-> d]
Num(n) == Frac(n, 1)

IsNaN(x) == ~x.isNull /\ x.den = 0
\* Number.isInteger
IsInteger(x) == ~x.isNull /\ x.den > 0 /\ x.num % x.den = 0
\* x < n, x > n for a number x and an integer n (false for NaN)
Less(x, n) == x.den > 0 /\ x.num < n * x.den
Greater(x, n) == x.den > 0 /\ x.num > n * x.den
GreaterEq(x, n) == x.den > 0 /\ x.num >= n * x.den
\* a + b
Plus(a, b) == IF a.den = 0 \/ b.den = 0 THEN NaN
              ELSE Frac(a.num * b.den + b.num * a.den, a.den * b.den)
\* the integer an integral number stands for
IntOf(x) == x.num \div x.den

NumFingers == 10
NoError == "null"
Undefined == "undefined"

DigitChars == <<"0", "1", "2", "3", "4", "5", "6", "7", "8", "9">>
IsDigit(c) == \E d \in 1..Len(DigitChars) : DigitChars[d] = c
DigitVal(c) == (CHOOSE d \in 1..Len(DigitChars) : DigitChars[d] = c) - 1
IsSpace(c) == c \in {" ", "\t"}

\* String(n) for a non-negative integer n
RECURSIVE String(_)
String(n) == IF n < 10 THEN DigitChars[n + 1]
             ELSE String(n \div 10) \o DigitChars[(n % 10) + 1]

(***************************************************************************)
(* parseExpr: the input must be, from start to end, whitespace, a digit,   *)
(* whitespace, a plus sign, whitespace, a digit, whitespace; group 1 is    *)
(* everything before the plus sign, group 2 the second digit.              *)
(***************************************************************************)
RECURSIVE SkipWs(_, _)
SkipWs(s, i) == IF i <= Len(s) /\ IsSpace(s[i]) THEN SkipWs(s, i + 1) ELSE i

RECURSIVE Trim(_)
Trim(t) == IF t = <<>> THEN t
           ELSE IF IsSpace(Head(t)) THEN Trim(Tail(t))
           ELSE IF IsSpace(t[Len(t)]) THEN Trim(SubSeq(t, 1, Len(t) - 1))
           ELSE t

\* Number(t) for a trimmed text t
RECURSIVE DecimalOf(_)
DecimalOf(t) == IF t = <<>> THEN 0
                ELSE 10 * DecimalOf(SubSeq(t, 1, Len(t) - 1)) + DigitVal(t[Len(t)])
Number(t) == IF \A i \in 1..Len(t) : IsDigit(t[i]) THEN Num(DecimalOf(t)) ELSE NaN

\* the match without the anchor at the end of the text
MatchNoEnd(s) ==
    LET p1 == SkipWs(s, 1)
        p2 == SkipWs(s, p1 + 1)
        p3 == SkipWs(s, p2 + 1)
    IN  IF /\ p1 <= Len(s) /\ IsDigit(s[p1])
           /\ p2 <= Len(s) /\ s[p2] = "+"
           /\ p3 <= Len(s) /\ IsDigit(s[p3])
        THEN <<SubSeq(s, 1, p2 - 1), SubSeq(s, p3, p3)>>
        ELSE <<>>

\* the match: <<m[1], m[2]>>, or <<>> for no match
Match(s) ==
    LET p1 == SkipWs(s, 1)
        p2 == SkipWs(s, p1 + 1)
        p3 == SkipWs(s, p2 + 1)
        p4 == SkipWs(s, p3 + 1)
    IN  IF /\ p1 <= Len(s) /\ IsDigit(s[p1])
           /\ p2 <= Len(s) /\ s[p2] = "+"
           /\ p3 <= Len(s) /\ IsDigit(s[p3])
           /\ p4 = Len(s) + 1
        THEN <<SubSeq(s, 1, p2 - 1), SubSeq(s, p3, p3)>>
        ELSE <<>>

parseExpr(s) ==
    LET m == Match(s)
    IN  IF m = <<>> THEN <<Null, Null>>
        ELSE LET a == Number(Trim(m[1]))
                 b == Number(Trim(m[2]))
             IN  IF IsNaN(a) \/ IsNaN(b) THEN <<Null, Null>> ELSE <<a, b>>

(***************************************************************************)
(* validate                                                                *)
(***************************************************************************)
\* the messages, with their quotation marks and emoji left out or in ASCII
MsgExpr == "Please enter an expression like '3 + 3'."
MsgInteger == "A and B must be single digits."
MsgNegative == "Only non-negative single digits are supported."
MsgDigit == "Only single digits (0-9) are supported."
MsgSum == "Sum must be less than 10."
MsgZero == "Try something other than 0 + 0"

\* validate without the check of the sum
validateNoSum(a, b) ==
    IF a.isNull \/ b.isNull THEN MsgExpr
    ELSE IF ~IsInteger(a) \/ ~IsInteger(b) THEN MsgInteger
    ELSE IF Less(a, 0) \/ Less(b, 0) THEN MsgNegative
    ELSE IF Greater(a, 9) \/ Greater(b, 9) THEN MsgDigit
    ELSE IF Plus(a, b).num = 0 THEN MsgZero
    ELSE NoError

\* validate with the sum checked before the operands' upper bound
validateSumFirst(a, b) ==
    IF a.isNull \/ b.isNull THEN MsgExpr
    ELSE IF ~IsInteger(a) \/ ~IsInteger(b) THEN MsgInteger
    ELSE IF Less(a, 0) \/ Less(b, 0) THEN MsgNegative
    ELSE IF GreaterEq(Plus(a, b), 10) THEN MsgSum
    ELSE IF Greater(a, 9) \/ Greater(b, 9) THEN MsgDigit
    ELSE IF Plus(a, b).num = 0 THEN MsgZero
    ELSE NoError

\* validate with the sum's bound off by one (a + b > 10)
validateSumInclusive(a, b) ==
    IF a.isNull \/ b.isNull THEN MsgExpr
    ELSE IF ~IsInteger(a) \/ ~IsInteger(b) THEN MsgInteger
    ELSE IF Less(a, 0) \/ Less(b, 0) THEN MsgNegative
    ELSE IF Greater(a, 9) \/ Greater(b, 9) THEN MsgDigit
    ELSE IF Greater(Plus(a, b), 10) THEN MsgSum
    ELSE IF Plus(a, b).num = 0 THEN MsgZero
    ELSE NoError

validate(a, b) ==
    IF a.isNull \/ b.isNull THEN MsgExpr
    ELSE IF ~IsInteger(a) \/ ~IsInteger(b) THEN MsgInteger
    ELSE IF Less(a, 0) \/ Less(b, 0) THEN MsgNegative
    ELSE IF Greater(a, 9) \/ Greater(b, 9) THEN MsgDigit
    ELSE IF GreaterEq(Plus(a, b), 10) THEN MsgSum
    ELSE IF Plus(a, b).num = 0 THEN MsgZero
    ELSE NoError

(***************************************************************************)
(* The texts of the input field: the quick-test gallery and typed texts.   *)
(***************************************************************************)
InitialExpr == <<"3", " ", "+", " ", "3">>
QuickCases == { <<"3", " ", "+", " ", "3">>,
                <<"1", " ", "+", " ", "8">>,
                <<"4", " ", "+", " ", "0">>,
                <<"0", " ", "+", " ", "0">>,
                <<"9", " ", "+", " ", "2">>,
                <<"a", " ", "+", " ", "b">>,
                <<"7", "+", " ", "1">> }
\* texts typed by hand: the same pair as the initial text, and a short run
TypedTexts == { <<"3", "+", "3">>, <<"1", " ", "+", " ", "1">> }

\* useMemo(() => parseExpr(expr), [expr])
A == parseExpr(expr)[1]
B == parseExpr(expr)[2]

Modes == {"sketch", "svg2", "photo"}

(***************************************************************************)
(* The finger labels.                                                      *)
(***************************************************************************)
\* Array(10).fill("")
EmptyLabels == [i \in 1..NumFingers |-> ""]

\* next = [...prev]; next[idx] = v  (indices from 0; a write past the end
\* extends the array, leaving holes)
SetAt(prev, idx, v) ==
    IF idx < Len(prev) THEN [prev EXCEPT ![idx + 1] = v]
    ELSE prev \o [h \in 1..(idx - Len(prev)) |-> Undefined] \o <<v>>

(***************************************************************************)
(* runAnimation.  A suspended coroutine is [id, a, b, phase, k]: it sleeps *)
(* after step k of loop `phase` (1, 2, 3), or after clearing the highlight *)
(* (phase 4).  Phase 5 is the end of the function.                         *)
(***************************************************************************)
At(p, k) == [phase |-> p, k |-> k]

\* where control stops next, entering the loops in order
Enter3(b) == IF 0 < b THEN At(3, 0) ELSE At(4, 0)
Enter2(b) == IF 0 < b THEN At(2, 0) ELSE Enter3(b)
Enter1(a, b) == IF 0 < a THEN At(1, 0) ELSE Enter2(b)

\* the control flow without the third loop
AfterSkipsRelabel(a, b, p, k) ==
    CASE p = 1 -> IF k + 1 < a THEN At(1, k + 1) ELSE Enter2(b)
      [] p = 2 -> IF k + 1 < b THEN At(2, k + 1) ELSE At(4, 0)
      [] p = 3 -> IF k + 1 < b THEN At(3, k + 1) ELSE At(4, 0)
      [] OTHER -> At(5, 0)

\* where control stops next after the sleep at (p, k)
After(a, b, p, k) ==
    CASE p = 1 -> IF k + 1 < a THEN At(1, k + 1) ELSE Enter2(b)
      [] p = 2 -> IF k + 1 < b THEN At(2, k + 1) ELSE Enter3(b)
      [] p = 3 -> IF k + 1 < b THEN At(3, k + 1) ELSE At(4, 0)
      [] OTHER -> At(5, 0)

\* the slot and the label written by step k of loop p
StepIdx(a, p, k) == IF p = 1 THEN k ELSE a + k
StepLabel(a, p, k) == IF p = 3 THEN String(a + k + 1) ELSE String(k + 1)

\* safeSet with the comparison inverted
safeSetInverted(cur, runId, new, old) == IF cur # runId THEN new ELSE old

\* safeSet: fn() runs only if lastRunId.current (cur) is still runId
safeSet(cur, runId, new, old) == IF cur = runId THEN new ELSE old

\* the labels and the highlight after the writes made on arriving at pt
LabelsAt(cur, runId, a, pt, old) ==
    IF pt.phase \in 1..3
    THEN safeSet(cur, runId,
                 SetAt(old, StepIdx(a, pt.phase, pt.k), StepLabel(a, pt.phase, pt.k)),
                 old)
    ELSE old
HighlightAt(cur, runId, a, pt, old) ==
    IF pt.phase \in 1..3 THEN safeSet(cur, runId, Num(StepIdx(a, pt.phase, pt.k)), old)
    ELSE IF pt.phase = 4 THEN safeSet(cur, runId, Null, old)
    ELSE old

\* history records: the task just executed, and a refused start
Event(kind, id, a, b, ok) == [kind |-> kind, id |-> id, a |-> a, b |-> b, ok |-> ok]
NoAttempt == [id |-> 0, a |-> 0, b |-> 0]

\* the guard left out
BusyNever == FALSE

\* if (isRunning) return
Busy == isRunning

\* the counter read but not incremented
NewRunIdSame == lastRunId

\* const runId = ++lastRunId.current
NewRunId == lastRunId + 1

Remove(seq, i) == SubSeq(seq, 1, i - 1) \o SubSeq(seq, i + 1, Len(seq))

\* the call without the two resets that follow the definition of safeSet
CallNoReset(busy, a, b) ==
    IF busy
    THEN /\ ev' = Event("start", lastRunId, a, b, FALSE)
         /\ UNCHANGED <<labels, highlightIdx, isRunning, resultOpen, lastRunId,
                        runs, issued, steps>>
    ELSE LET runId == NewRunId
             pt == Enter1(a, b)
         IN  /\ isRunning' = TRUE
             /\ resultOpen' = FALSE
             /\ lastRunId' = runId
             /\ issued' = Append(issued, runId)
             /\ labels' = LabelsAt(runId, runId, a, pt, labels)
             /\ highlightIdx' = HighlightAt(runId, runId, a, pt, highlightIdx)
             /\ runs' = Append(runs, [id |-> runId, a |-> a, b |-> b,
                                      phase |-> pt.phase, k |-> pt.k])
             /\ ev' = Event("start", runId, a, b, TRUE)
             /\ steps' = 1

\* the call runAnimation(a, b), up to its first await; busy is the value the
\* guard `if (isRunning) return` reads
Call(busy, a, b) ==
    IF busy
    THEN /\ ev' = Event("start", lastRunId, a, b, FALSE)
         /\ UNCHANGED <<labels, highlightIdx, isRunning, resultOpen, lastRunId,
                        runs, issued, steps>>
    ELSE LET runId == NewRunId
             pt == Enter1(a, b)
         IN  /\ isRunning' = TRUE
             /\ resultOpen' = FALSE
             /\ lastRunId' = runId
             /\ issued' = Append(issued, runId)
             /\ labels' = LabelsAt(runId, runId, a, pt,
                                   safeSet(runId, runId, EmptyLabels, labels))
             /\ highlightIdx' = HighlightAt(runId, runId, a, pt,
                                            safeSet(runId, runId, Null, highlightIdx))
             /\ runs' = Append(runs, [id |-> runId, a |-> a, b |-> b,
                                      phase |-> pt.phase, k |-> pt.k])
             /\ ev' = Event("start", runId, a, b, TRUE)
             /\ steps' = 1

\* a timer fires: coroutine i resumes after its sleep and runs to the next
\* await or to the end; cur is the value of lastRunId.current safeSet reads
Continue(i, cur) ==
    LET r == runs[i]
        pt == After(r.a, r.b, r.phase, r.k)
    IN  /\ labels' = LabelsAt(cur, r.id, r.a, pt, labels)
        /\ highlightIdx' = HighlightAt(cur, r.id, r.a, pt, highlightIdx)
        /\ IF pt.phase = 5
           THEN /\ resultOpen' = safeSet(cur, r.id, TRUE, resultOpen)
                /\ isRunning' = safeSet(cur, r.id, FALSE, isRunning)
                /\ runs' = Remove(runs, i)
                /\ ev' = Event("finish", r.id, r.a, r.b, cur = r.id)
                /\ steps' = 0
           ELSE /\ UNCHANGED <<resultOpen, isRunning>>
                /\ runs' = [runs EXCEPT ![i] = [r EXCEPT !.phase = pt.phase, !.k = pt.k]]
                /\ ev' = Event("step", r.id, r.a, r.b, cur = r.id)
                /\ steps' = steps + 1
        /\ UNCHANGED <<lastRunId, issued>>

\* runAnimation with neither of its two guards
runAnimationUnguarded(a, b, i) ==
    IF i = 0 THEN Call(FALSE, a, b) ELSE Continue(i, runs[i].id)

\* one task of runAnimation: the call runAnimation(a, b) (i = 0), or the
\* resumption of the suspended coroutine i
runAnimation(a, b, i) ==
    IF i = 0 THEN Call(Busy, a, b) ELSE Continue(i, lastRunId)

(***************************************************************************)
(* The component's handlers.                                               *)
(***************************************************************************)
\* the effect with the dependency list [A]
OperandEffectOnlyA(t) ==
    IF parseExpr(t)[1] # parseExpr(expr)[1]
    THEN /\ labels' = EmptyLabels
         /\ highlightIdx' = Null
         /\ resultOpen' = FALSE
         /\ error' = NoError
    ELSE UNCHANGED <<labels, highlightIdx, resultOpen, error>>

\* the effect without setResultOpen(false)
OperandEffectKeepsResult(t) ==
    IF parseExpr(t) # parseExpr(expr)
    THEN /\ labels' = EmptyLabels
         /\ highlightIdx' = Null
         /\ error' = NoError
         /\ UNCHANGED resultOpen
    ELSE UNCHANGED <<labels, highlightIdx, resultOpen, error>>

\* useEffect(..., [A, B]): runs when the parsed pair of the new text differs
OperandEffect(t) ==
    IF parseExpr(t) # parseExpr(expr)
    THEN /\ labels' = EmptyLabels
         /\ highlightIdx' = Null
         /\ resultOpen' = FALSE
         /\ error' = NoError
    ELSE UNCHANGED <<labels, highlightIdx, resultOpen, error>>

\* input onChange and QuickTests onPick: setExpr(t), then the effect
SetExpr(t) ==
    /\ t # expr
    /\ expr' = t
    /\ OperandEffect(t)
    /\ ev' = Event("expr", lastRunId, 0, 0, parseExpr(t) # parseExpr(expr))
    /\ UNCHANGED <<isRunning, lastRunId, mode, runs, attempt, issued, steps>>

\* handleRun without the return after setError(err)
handleRunNoReturn ==
    LET err == validate(A, B)
    IN  /\ error' = NoError
        /\ runAnimation(IntOf(A), IntOf(B), 0)

\* function handleRun
handleRun ==
    LET err == validate(A, B)
    IN  IF err # NoError
        THEN /\ error' = err
             /\ ev' = Event("run", lastRunId, 0, 0, FALSE)
             /\ UNCHANGED <<labels, highlightIdx, isRunning, resultOpen, lastRunId,
                            runs, issued, steps>>
        ELSE /\ error' = NoError
             /\ runAnimation(IntOf(A), IntOf(B), 0)

\* the Play button: <button onClick={handleRun} disabled={isRunning}>
Play ==
    /\ ~isRunning
    /\ validate(A, B) = NoError => lastRunId < MaxRuns
    /\ handleRun
    /\ attempt' = IF lastRunId' # lastRunId THEN NoAttempt ELSE attempt
    /\ UNCHANGED <<expr, mode>>

\* the mode radio buttons
SetMode(m) ==
    /\ m # mode
    /\ mode' = m
    /\ ev' = Event("mode", lastRunId, 0, 0, TRUE)
    /\ UNCHANGED <<expr, error, labels, highlightIdx, isRunning, resultOpen,
                   lastRunId, runs, attempt, issued, steps>>

\* the result overlay is rendered
OverlayShown == resultOpen /\ ~A.isNull /\ ~B.isNull

\* a dismissal that also clears the fingers
CloseResultClears ==
    /\ OverlayShown
    /\ resultOpen' = FALSE
    /\ labels' = EmptyLabels
    /\ highlightIdx' = Null
    /\ ev' = Event("close", lastRunId, 0, 0, TRUE)
    /\ UNCHANGED <<expr, error, isRunning, lastRunId, mode, runs, attempt, issued, steps>>

\* the overlay's Close button and the click outside the modal
CloseResult ==
    /\ OverlayShown
    /\ resultOpen' = FALSE
    /\ ev' = Event("close", lastRunId, 0, 0, TRUE)
    /\ UNCHANGED <<expr, error, labels, highlightIdx, isRunning, lastRunId, mode,
                   runs, attempt, issued, steps>>

\* a sleep's timer fires
Timer ==
    /\ \E i \in 1..Len(runs) : runAnimation(0, 0, i)
    /\ UNCHANGED <<expr, error, mode, attempt>>

\* a caller other than the Play button calls runAnimation(a, b) while a run
\* is in flight
SeqPairs == { <<5, 0>>, <<1, 1>> }
ReentrantStart(a, b) ==
    /\ isRunning
    /\ lastRunId <= MaxRuns
    /\ runAnimation(a, b, 0)
    /\ attempt' = [id |-> lastRunId, a |-> a, b |-> b]
    /\ UNCHANGED <<expr, error, mode>>

InitUI ==
    /\ expr = InitialExpr
    /\ error = NoError
    /\ labels = EmptyLabels
    /\ highlightIdx = Null
    /\ isRunning = FALSE
    /\ resultOpen = FALSE
    /\ lastRunId = 0
    /\ mode = "svg2"
    /\ runs = <<>>
    /\ ev = Event("init", 0, 0, 0, TRUE)
    /\ attempt = NoAttempt
    /\ issued = <<>>
    /\ steps = 0

(***************************************************************************)
(* Harnesses for the two pure functions.                                   *)
(***************************************************************************)
Unset == "unset"
ParseAlphabet == {"1", "9", " ", "\t", "+", "a"}

\* a keystroke: the text is parsed again and, as in the gallery's rows,
\* the parsed pair is validated
TypeChar(c) ==
    /\ Len(pin) < MaxLen
    /\ pin' = Append(pin, c)
    /\ pout' = parseExpr(pin')
    /\ pmsg' = validate(pout'[1], pout'[2])

ValDens == {1, 2}
Vals == {Null, NaN} \cup { Frac(n, d) : n \in (0 - ValLo)..ValHi, d \in ValDens }

Validate ==
    /\ vout = Unset
    /\ vout' = validate(vin[1], vin[2])
    /\ UNCHANGED vin

InitParse == pin = <<>> /\ pout = parseExpr(<<>>) /\ pmsg = validate(Null, Null)
InitVal == vin = <<Null, Null>> /\ vout = Unset

Init == InitUI /\ InitParse /\ InitVal

ChangeText ==
    /\ \E t \in QuickCases \cup TypedTexts : SetExpr(t)
    /\ UNCHANGED <<parseVars, valVars>>
PressPlay == Play /\ UNCHANGED <<parseVars, valVars>>
TimerFires == Timer /\ UNCHANGED <<parseVars, valVars>>
ChangeMode ==
    /\ \E m \in Modes : SetMode(m)
    /\ UNCHANGED <<parseVars, valVars>>
Dismiss == CloseResult /\ UNCHANGED <<parseVars, valVars>>
StartAgain ==
    /\ \E p \in SeqPairs : ReentrantStart(p[1], p[2])
    /\ UNCHANGED <<parseVars, valVars>>

\* the component as the user drives it
Next == ChangeText \/ PressPlay \/ TimerFires \/ ChangeMode \/ Dismiss
Spec == Init /\ [][Next]_vars

\* the component, with every pending timer firing eventually (setTimeout)
SpecLive == Init /\ [][Next]_vars /\ WF_vars(TimerFires)

\* the component with a second caller of the sequencer
NextSeq == Next \/ StartAgain
SpecSeq == Init /\ [][NextSeq]_vars

\* the parser on every text of at most MaxLen characters
NextParse == \E c \in ParseAlphabet : TypeChar(c) /\ UNCHANGED <<uiVars, valVars>>
SpecParse == Init /\ [][NextParse]_vars

\* the validator on every pair of Vals
InitValidate == InitUI /\ InitParse /\ vin \in Vals \X Vals /\ vout = Unset
NextValidate == Validate /\ UNCHANGED <<uiVars, parseVars>>
SpecValidate == InitValidate /\ [][NextValidate]_vars

(***************************************************************************)
(* Properties.                                                             *)
(***************************************************************************)
display == <<labels, highlightIdx, resultOpen, isRunning>>

\* the decimal text of a count 1..9
Token(n) == DigitChars[n + 1]
\* the labels after a completed run of (a, b)
Post(a, b) == [i \in 1..NumFingers |-> IF i <= a + b THEN Token(i) ELSE ""]
ValidPair(a, b) == a \in 0..9 /\ b \in 0..9 /\ a + b \in 1..9

\* C1: when a run of (a, b) executes its final step, slot i holds label i+1
\* for every i below a+b, every other slot is empty, the highlight is null,
\* the result is visible and the system is not running.
C1_CompletionPostcondition ==
    ev.kind = "finish" =>
        /\ labels = Post(ev.a, ev.b)
        /\ highlightIdx = Null
        /\ resultOpen
        /\ ~isRunning

\* C2 (as claimed): a start(a2, b2) issued before the run in flight completes
\* begins a run with a new id, and once every timer has fired the state is
\* the completion state of (a2, b2).
C2_Supersedes ==
    (attempt # NoAttempt /\ ev.kind = "finish" /\ runs = <<>>) =>
        /\ lastRunId > attempt.id
        /\ labels = Post(attempt.a, attempt.b)
        /\ highlightIdx = Null
        /\ resultOpen

\* C2 (amended): a start issued before the run in flight completes allocates
\* no run id; the run in flight stays the latest, and when its final step
\* fires no coroutine is left, the highlight is null, the result is visible,
\* the system is not running and every labelled slot i holds the label i+1
\* of the run in flight, with i below its a+b.
C2_SecondStartRefused ==
    attempt # NoAttempt =>
        /\ lastRunId = attempt.id
        /\ \A i \in 1..Len(runs) : runs[i].id = attempt.id
        /\ ev.kind = "finish" =>
              /\ ev.id = attempt.id
              /\ runs = <<>>
              /\ highlightIdx = Null
              /\ resultOpen
              /\ ~isRunning
              /\ Len(labels) = NumFingers
              /\ \A i \in 1..NumFingers :
                    \/ labels[i] = ""
                    \/ i <= ev.a + ev.b /\ labels[i] = Token(i)

C2_Witness ==
    /\ attempt # NoAttempt
    /\ ev.kind = "finish"
    /\ <<attempt.a, attempt.b>> # <<ev.a, ev.b>>
    /\ labels = Post(ev.a, ev.b)

\* C3: a call of runAnimation made while the system is running changes none
\* of labels, highlight, result-visible, running flag and run id, and leaves
\* the coroutine in flight where it was.
C3_ReentrantStartIsNoOp ==
    [][(isRunning /\ ev'.kind = "start") =>
          UNCHANGED <<labels, highlightIdx, resultOpen, isRunning, lastRunId, runs>>]_vars

C3_Witness ==
    /\ ev.kind = "start" /\ ~ev.ok
    /\ isRunning
    /\ Len(runs) = 1
    /\ highlightIdx # Null

\* C4: a step of a run changes labels, highlight, result-visible or the
\* running flag only if the run's id is the latest allocated id at that
\* moment.
C4_WritesOnlyByLatestRun ==
    [][(ev'.kind \in {"step", "finish"} /\ display' # display) =>
          ev'.id = lastRunId]_vars

C4_Witness ==
    /\ ev.kind = "step"
    /\ ev.id = lastRunId
    /\ highlightIdx = Num(1)
    /\ labels[2] = Token(2)

\* C5: handleRun starts a run only when validate(A, B) reports no error, so
\* every run has 0 <= a, b <= 9 and 1 <= a+b <= 9; when validation fails the
\* error is the validator's reason and run id, running flag, labels,
\* highlight and result-visible are unchanged.
C5_ValidationGatesTrigger ==
    [][/\ lastRunId' # lastRunId =>
              /\ validate(A, B) = NoError
              /\ runs'[Len(runs')].a = IntOf(A)
              /\ runs'[Len(runs')].b = IntOf(B)
       /\ \A i \in 1..Len(runs') : ValidPair(runs'[i].a, runs'[i].b)
       /\ ev'.kind = "run" =>
              /\ validate(A, B) # NoError
              /\ error' = validate(A, B)
              /\ UNCHANGED <<lastRunId, isRunning, labels, highlightIdx, resultOpen>>
      ]_vars

C5_Witness ==
    /\ ev.kind = "run"
    /\ error = MsgSum
    /\ lastRunId = 1
    /\ ~isRunning

\* C6: validate returns the reason of the first failing check in the order
\* absent, not an integer, negative, above 9, sum >= 10, sum = 0, and no
\* error when no check fails; (15, 2) reports the single-digit violation and
\* a negative operand beside a too-large one the non-negative violation.
Integral(x) == ~x.isNull /\ x.den > 0 /\ \E q \in (0 - 32)..32 : q * x.den = x.num
Fails(c, a, b) ==
    CASE c = 1 -> a.isNull \/ b.isNull
      [] c = 2 -> ~Integral(a) \/ ~Integral(b)
      [] c = 3 -> a.num < 0 \/ b.num < 0
      [] c = 4 -> a.num > 9 * a.den \/ b.num > 9 * b.den
      [] c = 5 -> a.num * b.den + b.num * a.den >= 10 * a.den * b.den
      [] OTHER -> a.num * b.den + b.num * a.den = 0
Reasons == <<MsgExpr, MsgInteger, MsgNegative, MsgDigit, MsgSum, MsgZero>>
FirstFailing(a, b) ==
    LET F == {c \in 1..Len(Reasons) : Fails(c, a, b)}
    IN  IF F = {} THEN NoError
        ELSE Reasons[CHOOSE c \in F : \A d \in F : c <= d]

C6_ValidatorPrecedence ==
    vout # Unset =>
        /\ vout = FirstFailing(vin[1], vin[2])
        /\ vin = <<Num(15), Num(2)>> => vout = MsgDigit
        /\ vin = <<Num(0 - 1), Num(12)>> => vout = MsgNegative

C6_Witness == vin = <<Num(15), Num(2)>> /\ vout = MsgDigit

\* C7: validate returns no error exactly for integers 0 <= a, b <= 9 with
\* 1 <= a+b <= 9; (0, 0) gets the degenerate-zero reason and every pair of
\* digits with a+b = 10 the sum-too-large reason.
C7_ValidatorAcceptance ==
    vout # Unset =>
        LET a == vin[1]
            b == vin[2]
            digits == Integral(a) /\ Integral(b)
                      /\ IntOf(a) \in 0..9 /\ IntOf(b) \in 0..9
        IN  /\ vout = NoError <=> (digits /\ IntOf(a) + IntOf(b) \in 1..9)
            /\ (digits /\ IntOf(a) + IntOf(b) = 0) => vout = MsgZero
            /\ (digits /\ IntOf(a) + IntOf(b) = 10) => vout = MsgSum

C7_Witness == vin = <<Num(7), Num(3)>> /\ vout = MsgSum

\* C8: parseExpr returns the two digits as integers exactly for the texts
\* made of whitespace, a digit, whitespace, '+', whitespace, a digit and
\* whitespace, and (null, null) for every other text, for which validate
\* then reports the expression-not-understood reason.
Shaped(s, i, p, j) ==
    /\ i < p /\ p < j
    /\ IsDigit(s[i]) /\ s[p] = "+" /\ IsDigit(s[j])
    /\ \A n \in (1..Len(s)) \ {i, p, j} : s[n] \in {" ", "\t"}
Shapes(s) == { t \in (1..Len(s)) \X (1..Len(s)) \X (1..Len(s)) :
                  Shaped(s, t[1], t[2], t[3]) }

C8_ParserCorrect ==
    LET S == Shapes(pin)
    IN  IF S = {}
        THEN pout = <<Null, Null>> /\ pmsg = MsgExpr
        ELSE \E t \in S : pout = <<Num(DigitVal(pin[t[1]])), Num(DigitVal(pin[t[3]]))>>

C8_Witness ==
    /\ pin = <<" ", "1", "+", "9", " ">>
    /\ pout = <<Num(1), Num(9)>>
    /\ pmsg = MsgSum

\* C9: result-visible goes from false to true only in the final step of a
\* run whose id is the latest, and every change of the operand pair and
\* every accepted start sets it to false.
C9_ResultVisibility ==
    [][/\ (~resultOpen /\ resultOpen') => (ev'.kind = "finish" /\ ev'.id = lastRunId)
       /\ (ev'.kind = "expr" /\ ev'.ok) => ~resultOpen'
       /\ (ev'.kind = "start" /\ ev'.ok) => ~resultOpen'
      ]_vars

C9_Witness ==
    /\ ev.kind = "expr" /\ ev.ok
    /\ ~resultOpen
    /\ lastRunId = 1
    /\ ~isRunning

\* C10: the run id never decreases; it changes only in a start made while
\* not running, by exactly one and to a value above every id allocated
\* before; every accepted start changes it, and no two runs carry the same
\* id.
C10_RunIdMonotonic ==
    [][/\ lastRunId' >= lastRunId
       /\ lastRunId' # lastRunId =>
              /\ ev'.kind = "start" /\ ~isRunning
              /\ lastRunId' = lastRunId + 1
              /\ \A n \in 1..Len(issued) : issued[n] < lastRunId'
       /\ (ev'.kind = "start" /\ ev'.ok) => lastRunId' # lastRunId
       /\ ev'.kind \in {"run", "step", "finish", "expr", "mode", "close"} =>
              lastRunId' = lastRunId
       /\ (isRunning /\ ev'.kind = "start") => lastRunId' = lastRunId
       /\ \A m, n \in 1..Len(issued') : m # n => issued'[m] # issued'[n]
       /\ \A n \in 1..Len(runs') : \E m \in 1..Len(issued') : issued'[m] = runs'[n].id
      ]_vars

C10_Witness ==
    /\ lastRunId = 2
    /\ issued = <<1, 2>>
    /\ ev.kind = "finish"

\* C11: a change of the parsed operand pair resets the labels to ten empty
\* labels, the highlight to null, result-visible to false and the error to
\* none; a change of the text that leaves the parsed pair the same changes
\* none of the four.
C11_OperandChangeResets ==
    [][ev'.kind = "expr" =>
          IF parseExpr(expr') # parseExpr(expr)
          THEN /\ labels' = [i \in 1..10 |-> ""]
               /\ highlightIdx' = Null
               /\ ~resultOpen'
               /\ error' = NoError
          ELSE UNCHANGED <<labels, highlightIdx, resultOpen, error>>]_vars

C11_Witness ==
    /\ ev.kind = "expr"
    /\ A = Num(1) /\ B = Num(1)
    /\ lastRunId = 1 /\ ~isRunning
    /\ labels = EmptyLabels

\* C12: the label array always has exactly 10 entries, the highlight is
\* null or one index in 0..9, and every non-empty label is the decimal text
\* of an integer in 1..9.
C12_SlotArrayShape ==
    /\ Len(labels) = 10
    /\ highlightIdx = Null \/ \E i \in 0..9 : highlightIdx = Num(i)
    /\ \A i \in 1..Len(labels) :
          labels[i] = "" \/ \E n \in 1..9 : labels[i] = Token(n)

C12_Witness ==
    /\ highlightIdx = Num(8)
    /\ labels[9] = Token(9)
    /\ isRunning

\* C13: from the accepted start of a run until it completes, labels and the
\* highlight are changed only by steps of that run.
C13_ExclusiveOwnership ==
    [][(isRunning /\ <<labels, highlightIdx>>' # <<labels, highlightIdx>>) =>
          (ev'.kind \in {"step", "finish"} /\ ev'.id = lastRunId)]_vars

\* C14: the n-th step of a run of (a, b) sets the highlight to 0, ..., a-1
\* (writing label i+1 at slot i), then to a, ..., a+b-1 (label j+1 at slot
\* a+j), then to a, ..., a+b-1 again (label a+j+1 at slot a+j), then to null;
\* each task of the run makes one of these steps, in this order, and the run
\* ends after the last of them; a phase of zero steps is passed over.
Planned(a, b) ==
    [n \in 1..(a + 2 * b + 1) |->
        IF n <= a THEN [hl |-> Num(n - 1), slot |-> n - 1, label |-> Token(n)]
        ELSE IF n <= a + b THEN [hl |-> Num(n - 1), slot |-> n - 1, label |-> Token(n - a)]
        ELSE IF n <= a + 2 * b THEN [hl |-> Num(n - b - 1), slot |-> n - b - 1,
                                     label |-> Token(n - b)]
        ELSE [hl |-> Null, slot |-> 0 - 1, label |-> ""]]
Labelled(ls) == {i \in 1..Len(ls) : ls[i] # ""}
C15_RelabelInPlace ==
    [][(Len(runs) = 1 /\ Len(runs') = 1) =>
          LET a == runs[1].a
              b == runs[1].b
              j == steps' - a - b - 1
          IN  /\ steps >= a + b =>
                    (Labelled(labels) = 1..(a + b) /\ Labelled(labels') = 1..(a + b))
              /\ (ev'.kind = "step" /\ steps' \in (a + b + 1)..(a + 2 * b)) =>
                    /\ labels[a + j + 1] = Token(j + 1)
                    /\ labels'[a + j + 1] = Token(a + j + 1)
                    /\ \A i \in 1..Len(labels) : i # a + j + 1 => labels'[i] = labels[i]
              /\ (ev'.kind = "step" /\ steps' \in (a + 1)..(a + 2 * b)) =>
                    \A i \in 1..a : labels'[i] = labels[i]
      ]_vars

\* C16: an accepted start, in the task of the call itself, marks the system
\* running, hides the result and resets the ten labels and the highlight, so
\* that after the call's first step only slot 0 is labelled, whatever labels
\* an earlier run left.
C16_StartResets ==
    [][(ev'.kind = "start" /\ ev'.ok) =>
          /\ isRunning'
          /\ ~resultOpen'
          /\ Len(labels') = 10
          /\ labels'[1] = Token(1)
          /\ \A i \in 2..10 : labels'[i] = ""
          /\ highlightIdx' = Num(0)
      ]_vars

C16_Witness ==
    /\ ev.kind = "start" /\ ev.ok
    /\ lastRunId = 2
    /\ expr = InitialExpr
    /\ labels = Post(1, 0)

\* C17: with timers that fire, every accepted start is eventually followed
\* by the final step of that run, which leaves result-visible true and the
\* system not running; the system never stays running forever.
C17_RunsComplete ==
    /\ \A n \in 1..MaxRuns :
          (ev.kind = "start" /\ ev.ok /\ ev.id = n)
             ~> (ev.kind = "finish" /\ ev.id = n /\ resultOpen /\ ~isRunning)
    /\ isRunning ~> ~isRunning

C17_Witness ==
    /\ ev.kind = "finish" /\ ev.id = 2 /\ ev.ok
    /\ resultOpen /\ ~isRunning
    /\ A = Null

\* C18: selecting a mode leaves labels, highlight, result-visible, running
\* flag, run id and operands unchanged; dismissing the result sets
\* result-visible to false and leaves labels, highlight, running flag and
\* run id unchanged.
C18_ModeAndDismissFrame ==
    [][/\ ev'.kind = "mode" =>
              UNCHANGED <<labels, highlightIdx, resultOpen, isRunning, lastRunId, expr, runs>>
       /\ ev'.kind = "close" =>
              /\ resultOpen /\ ~resultOpen'
              /\ UNCHANGED <<labels, highlightIdx, isRunning, lastRunId, runs>>
      ]_vars

C18_Witness ==
    /\ ev.kind = "close"
    /\ ~resultOpen
    /\ labels = Post(1, 8)
    /\ mode = "photo"

\* C19: at most one run is in flight; its id is the latest allocated id, so
\* the guard of safeSet passes in every step a coroutine executes; and the
\* running flag is true exactly when a started run has not yet executed its
\* final step.
C19_SingleRunInFlight ==
    /\ Len(runs) <= 1
    /\ \A i \in 1..Len(runs) : runs[i].id = lastRunId
    /\ ev.kind \in {"step", "finish"} => (ev.ok /\ ev.id = lastRunId)
    /\ isRunning <=> runs # <<>>

C19_Witness ==
    /\ Len(runs) = 1 /\ isRunning
    /\ ev.kind = "start" /\ ~ev.ok
    /\ runs[1].phase = 3

\* C20: whenever the result overlay is shown, slots [0, A+B) hold 1..A+B and
\* every other slot is empty, for the current operand pair (A, B).
C20_ResultMatchesFingers ==
    OverlayShown => labels = Post(IntOf(A), IntOf(B))

====
